---- MODULE Spec2Model ----
(***************************************************************************)
(* Model of scripts/generate-workflow-report.py: the report generator that *)
(* flattens a Playwright JSON report, groups video frames, matches frames  *)
(* to tests and renders one HTML document.                                 *)
(*                                                                         *)
(* Strings whose characters the code inspects (titles, frame file stems,   *)
(* frame prefixes) are sequences of one-character strings.  A function     *)
(* that may raise returns a record whose field "raised" says so.           *)
(***************************************************************************)
EXTENDS Integers, Sequences, FiniteSets, TLC

VARIABLES
    pc,        \* position of the run (main) or of the function call under check
    call,      \* the arguments of the function call under check
    ret,       \* the value that call returned
    args,      \* main: the command line (--open)
    fs,        \* main: the file system the run reads and writes
    report,    \* main: the parsed report document (line 44)
    tests,     \* main: the flattened records (line 46)
    frames,    \* main: the frame groups (line 47)
    html,      \* main: the rendered document (line 55)
    exit       \* main: the exit code and what went to standard error

vars == <<pc, call, ret, args, fs, report, tests, frames, html, exit>>
callVars == <<call, ret>>
mainVars == <<args, fs, report, tests, frames, html, exit>>

\* Python's None
None == "None"

\* the variables a specification does not use
NoCall == call = None /\ ret = None
NoMain ==
    /\ args = None /\ fs = None /\ report = None /\ tests = None
    /\ frames = None /\ html = None /\ exit = None


(***************************************************************************)
(* Characters                                                              *)
(***************************************************************************)
\* Code points of the characters the model uses (Python compares str by code point).
Ord(c) ==
    CASE c = " " -> 32
      [] c = "-" -> 45
      [] c = "." -> 46
      [] c = "0" -> 48
      [] c = "1" -> 49
      [] c = "2" -> 50
      [] c = "A" -> 65
      [] c = "B" -> 66
      [] c = "C" -> 67
      [] c = "a" -> 97
      [] c = "b" -> 98
      [] c = "c" -> 99
      [] c = "d" -> 100
      [] c = "e" -> 101
      [] c = "g" -> 103
      [] c = "k" -> 107
      [] c = "n" -> 110
      [] c = "o" -> 111
      [] c = "p" -> 112
      [] c = "u" -> 117
      [] c = "w" -> 119
      [] c = "x" -> 120

IsDigit(c) == c \in {"0", "1", "2"}
IsLower(c) == c \in {"a", "b", "c", "d", "e", "g", "k", "n", "o", "p", "u", "w", "x"}
IsUpper(c) == c \in {"A", "B", "C"}
IsAlnum(c) == IsDigit(c) \/ IsLower(c) \/ IsUpper(c)

\* str.lower() on one character
LowerChar(c) ==
    CASE c = "A" -> "a"
      [] c = "B" -> "b"
      [] c = "C" -> "c"
      [] OTHER -> c

Lower(s) == [i \in 1..Len(s) |-> LowerChar(s[i])]

\* Python's str < str: lexicographic by code point, a proper prefix is smaller.
RECURSIVE StrLess(_, _)
StrLess(s, t) ==
    IF t = <<>> THEN FALSE
    ELSE IF s = <<>> THEN TRUE
    ELSE IF Ord(Head(s)) # Ord(Head(t)) THEN Ord(Head(s)) < Ord(Head(t))
    ELSE StrLess(Tail(s), Tail(t))

StrLeq(s, t) == s = t \/ StrLess(s, t)

(***************************************************************************)
(* format_duration                                                         *)
(***************************************************************************)
\* floor(log2(n / d)) for n, d > 0 with the quotient in [2^-8, 2^8)
RECURSIVE Log2Floor(_, _)
Log2Floor(n, d) ==
    IF n >= 2 * d THEN 1 + Log2Floor(n, 2 * d)
    ELSE IF n < d THEN Log2Floor(2 * n, d) - 1
    ELSE 0

Pow2Mod5(k) == <<1, 2, 4, 3>>[(k % 4) + 1]

\* The tenths shown by f"{s:.1f}" for s = ms / 1000 (an IEEE double) when ms ends
\* in 50, that is when ms / 1000 lies halfway between two tenths: q is ms \div 100.
\* The double nearest to (2q+1)/20 has the 53-bit mantissa round((2q+1) * 2^k / 5)
\* with k = 50 - floor(log2 s); the remainder of (2q+1) * 2^k modulo 5 says whether
\* the double lies below or above the halfway point, and the formatting (correctly
\* rounded, half to even on an exact tie) follows it.
TieTenths(q) ==
    LET odd == 2 * q + 1
        k   == 50 - Log2Floor(odd, 20)
        r   == ((odd % 5) * Pow2Mod5(k)) % 5
    IN  IF r = 0 THEN (IF q % 2 = 0 THEN q ELSE q + 1)
        ELSE IF r \in {1, 2} THEN q
        ELSE q + 1

\* f"{s:.1f}" for s = ms / 1000, in tenths of a second
RoundTenths(ms) ==
    LET q == ms \div 100
        r == ms % 100
    IN  IF r < 50 THEN q ELSE IF r > 50 THEN q + 1 ELSE TieTenths(q)

\* f"{s:.0f}" for s = rem / 1000 with rem < 60000: x.5 is a double, so the tie is
\* exact and rounds half to even
RoundSeconds(rem) ==
    LET w == rem \div 1000
        f == rem % 1000
    IN  IF f < 500 THEN w
        ELSE IF f > 500 THEN w + 1
        ELSE IF w % 2 = 0 THEN w ELSE w + 1

\* lines 209-215.  "s": shown as <tenths/10 with one decimal>s; "m s": shown as <m>m <s>s
format_duration(ms) ==
    IF ms < 60000
    THEN [form |-> "s", tenths |-> RoundTenths(ms)]
    ELSE [form |-> "m s", m |-> ms \div 60000, s |-> RoundSeconds(ms % 60000)]

(***************************************************************************)
(* collect_tests                                                           *)
(***************************************************************************)
\* dict.get(key, default)
Get(d, key, default) == IF key \in DOMAIN d THEN d[key] ELSE default

\* the record appended at lines 80-89; an error message is given by its length (0: "")
TestRecord(suite_title, spec_title, project, result) ==
    [suite       |-> suite_title,
     title       |-> spec_title,
     project     |-> project,
     status      |-> Get(result, "status", "unknown"),
     duration    |-> Get(result, "duration", 0),
     startTime   |-> Get(result, "startTime", ""),
     error       |-> Get(Get(result, "error", <<>>), "message", 0),
     attachments |-> Get(result, "attachments", <<>>)]

\* lines 77-89: the tests of one spec, test by test, result by result
RECURSIVE walk_tests(_, _, _)
walk_tests(suite_title, spec_title, test_list) ==
    IF test_list = <<>> THEN <<>>
    ELSE LET test    == Head(test_list)
             project == Get(test, "projectName", "")
             results == Get(test, "results", <<>>)
         IN  [i \in 1..Len(results) |->
                 TestRecord(suite_title, spec_title, project, results[i])]
             \o walk_tests(suite_title, spec_title, Tail(test_list))

\* lines 75-89: the specs of one suite
RECURSIVE walk_specs(_, _)
walk_specs(suite_title, specs) ==
    IF specs = <<>> THEN <<>>
    ELSE walk_tests(suite_title, Get(Head(specs), "title", ""),
                    Get(Head(specs), "tests", <<>>))
         \o walk_specs(suite_title, Tail(specs))

\* faulty variant: the nested suites are walked before the suite's own specs
RECURSIVE walk_nested_first(_)
walk_nested_first(suites) ==
    IF suites = <<>> THEN <<>>
    ELSE LET suite == Head(suites)
         IN  walk_nested_first(Get(suite, "suites", <<>>))
             \o walk_specs(Get(suite, "title", ""), Get(suite, "specs", <<>>))
             \o walk_nested_first(Tail(suites))

\* lines 72-90: walk(suites)
RECURSIVE walk(_)
walk(suites) ==
    IF suites = <<>> THEN <<>>
    ELSE LET suite == Head(suites)
         IN  walk_specs(Get(suite, "title", ""), Get(suite, "specs", <<>>))
             \o walk(Get(suite, "suites", <<>>))
             \o walk(Tail(suites))

\* lines 68-93
collect_tests(rep) == walk(Get(rep, "suites", <<>>))

(***************************************************************************)
(* collect_frames                                                          *)
(*                                                                         *)
(* A frames directory is a set of PNG files [stem, readable]: stem is the  *)
(* file name without ".png", readable says whether open(png, "rb") and     *)
(* read() succeed.  Stems hold no newline (the only character "." of the   *)
(* pattern does not match).  The split of lines 103-108 (rsplit) is        *)
(* overwritten on both branches of line 113 and has no effect.             *)
(***************************************************************************)
Raised == [raised |-> TRUE]
Returned(v) == [raised |-> FALSE, value |-> v]

FileName(stem) == stem \o <<".", "p", "n", "g">>

\* sorted(frames_dir.glob("*.png")): paths of one directory compare by file name
RECURSIVE SortedByName(_)
SortedByName(files) ==
    IF files = {} THEN <<>>
    ELSE LET first == CHOOSE f \in files :
                         \A g \in files : StrLeq(FileName(f.stem), FileName(g.stem))
         IN  <<first>> \o SortedByName(files \ {first})

\* how many digits name holds from position i on
RECURSIVE DigitRun(_, _)
DigitRun(name, i) ==
    IF i <= Len(name) /\ IsDigit(name[i]) THEN 1 + DigitRun(name, i + 1) ELSE 0

\* -(\d+[a-z]?)-(.+)$ tried right after a group 1 of length p: the index of the last
\* character of group 2, or 0 when the rest of the pattern does not match there.
\* \d+ takes all the digits and [a-z]? the letter that follows, if any; giving
\* characters back never helps, since the next character must be the hyphen.
TokenEnd(name, p) ==
    LET d    == DigitRun(name, p + 2)
        last == p + 1 + d
        e    == IF last + 1 <= Len(name) /\ IsLower(name[last + 1]) THEN last + 1 ELSE last
    IN  IF /\ p + 1 <= Len(name) /\ name[p + 1] = "-"
           /\ d >= 1
           /\ e + 2 <= Len(name) /\ name[e + 1] = "-"
        THEN e ELSE 0

\* faulty variant: group 1 greedy, (.+), so the split is made at the last order token
StemMatchGreedy(name) ==
    LET ps == { p \in 1..Len(name) : TokenEnd(name, p) # 0 }
    IN  IF ps = {} THEN [matched |-> FALSE]
        ELSE LET p == CHOOSE q \in ps : \A r \in ps : r <= q
                 e == TokenEnd(name, p)
             IN  [matched |-> TRUE,
                  prefix |-> SubSeq(name, 1, p),
                  order  |-> SubSeq(name, p + 2, e),
                  label  |-> SubSeq(name, e + 2, Len(name))]

\* line 112: re.match(r"^(.+?)-(\d+[a-z]?)-(.+)$", name); group 1 is lazy, so the
\* match found is the one with the shortest group 1
StemMatch(name) ==
    LET ps == { p \in 1..Len(name) : TokenEnd(name, p) # 0 }
    IN  IF ps = {} THEN [matched |-> FALSE]
        ELSE LET p == CHOOSE q \in ps : \A r \in ps : q <= r
                 e == TokenEnd(name, p)
             IN  [matched |-> TRUE,
                  prefix |-> SubSeq(name, 1, p),
                  order  |-> SubSeq(name, p + 2, e),
                  label  |-> SubSeq(name, e + 2, Len(name))]

\* lines 112-120
ParseStem(name) ==
    LET m == StemMatch(name)
    IN  IF m.matched
        THEN [test_prefix |-> m.prefix, frame_order |-> m.order, frame_label |-> m.label]
        ELSE [test_prefix |-> name,
              frame_order |-> <<"0">>,
              frame_label |-> <<"u", "n", "k", "n", "o", "w", "n">>]

\* lines 128-133: the frame appended for one file; b64 stands for the file's content
Frame(file) ==
    LET parsed == ParseStem(file.stem)
    IN  [order    |-> parsed.frame_order,
         label    |-> parsed.frame_label,
         b64      |-> [content_of |-> file.stem],
         filename |-> FileName(file.stem)]

\* lines 122-133: frames[test_prefix].append(...), a new key going last
AddFrame(frame_map, prefix, frame) ==
    IF \E i \in 1..Len(frame_map) : frame_map[i].key = prefix
    THEN [i \in 1..Len(frame_map) |->
            IF frame_map[i].key = prefix
            THEN [key |-> prefix, group |-> Append(frame_map[i].group, frame)]
            ELSE frame_map[i]]
    ELSE Append(frame_map, [key |-> prefix, group |-> <<frame>>])

\* lines 99-133: the loop over the sorted files
RECURSIVE GroupFiles(_, _)
GroupFiles(sorted, frame_map) ==
    IF sorted = <<>> THEN frame_map
    ELSE GroupFiles(Tail(sorted),
                    AddFrame(frame_map, ParseStem(Head(sorted).stem).test_prefix,
                             Frame(Head(sorted))))

\* list.sort(key=lambda x: x["order"]): stable, ascending by str comparison
RECURSIVE InsertByOrder(_, _)
InsertByOrder(sorted, frame) ==
    IF sorted = <<>> THEN <<frame>>
    ELSE IF StrLess(frame.order, Head(sorted).order) THEN <<frame>> \o sorted
    ELSE <<Head(sorted)>> \o InsertByOrder(Tail(sorted), frame)

RECURSIVE SortFrom(_, _)
SortFrom(group, sorted) ==
    IF group = <<>> THEN sorted
    ELSE SortFrom(Tail(group), InsertByOrder(sorted, Head(group)))

\* faulty variant: the groups are left in the order the files were scanned
SortByOrderSkipped(group) == group

\* line 137
SortByOrder(group) == SortFrom(group, <<>>)

\* lines 96-139
collect_frames(files) ==
    IF \E f \in files : ~f.readable THEN Raised
    ELSE LET grouped == GroupFiles(SortedByName(files), <<>>)
         IN  Returned([i \in 1..Len(grouped) |->
                         [key   |-> grouped[i].key,
                          group |-> SortByOrder(grouped[i].group)]])

(***************************************************************************)
(* match_test_to_frames                                                    *)
(*                                                                         *)
(* A frame mapping (a dict, iterated in insertion order) is a sequence of  *)
(* entries [key |-> prefix, group |-> frames] with distinct keys.          *)
(***************************************************************************)
\* re.sub(r"[^a-zA-Z0-9]+", "-", s): every run of other characters becomes one hyphen
RECURSIVE SubNonAlnum(_, _)
SubNonAlnum(s, inRun) ==
    IF s = <<>> THEN <<>>
    ELSE IF IsAlnum(Head(s)) THEN <<Head(s)>> \o SubNonAlnum(Tail(s), FALSE)
    ELSE IF inRun THEN SubNonAlnum(Tail(s), TRUE)
    ELSE <<"-">> \o SubNonAlnum(Tail(s), TRUE)

\* str.strip("-")
RECURSIVE LStrip(_)
LStrip(s) == IF s # <<>> /\ Head(s) = "-" THEN LStrip(Tail(s)) ELSE s

RECURSIVE RStrip(_)
RStrip(s) ==
    IF s # <<>> /\ s[Len(s)] = "-" THEN RStrip(SubSeq(s, 1, Len(s) - 1)) ELSE s

Strip(s) == RStrip(LStrip(s))

\* line 181
Normalize(test_title) == Lower(Strip(SubNonAlnum(test_title, FALSE)))

\* str.split("-"): the hyphen-separated words, empty ones included ("" gives [""])
RECURSIVE SplitFrom(_, _)
SplitFrom(s, word) ==
    IF s = <<>> THEN <<word>>
    ELSE IF Head(s) = "-" THEN <<word>> \o SplitFrom(Tail(s), <<>>)
    ELSE SplitFrom(Tail(s), Append(word, Head(s)))

Split(s) == SplitFrom(s, <<>>)

\* set(s.split("-"))
WordSet(s) == {Split(s)[i] : i \in 1..Len(Split(s))}

\* lines 187-191: the overlap of one prefix with the normalized title
Overlap(normalized, prefix) ==
    Cardinality(WordSet(normalized) \cap WordSet(Lower(prefix)))

\* faulty variant: a later prefix with an equal score replaces the earlier one
RECURSIVE MatchLoopLast(_, _, _, _)
MatchLoopLast(normalized, keys, best_match, best_score) ==
    IF keys = <<>> THEN [best_match |-> best_match, best_score |-> best_score]
    ELSE LET overlap == Overlap(normalized, Head(keys))
         IN  IF overlap >= best_score
             THEN MatchLoopLast(normalized, Tail(keys), Head(keys), overlap)
             ELSE MatchLoopLast(normalized, Tail(keys), best_match, best_score)

\* lines 186-194: the loop over the mapping's keys
RECURSIVE MatchLoop(_, _, _, _)
MatchLoop(normalized, keys, best_match, best_score) ==
    IF keys = <<>> THEN [best_match |-> best_match, best_score |-> best_score]
    ELSE LET overlap == Overlap(normalized, Head(keys))
         IN  IF overlap > best_score
             THEN MatchLoop(normalized, Tail(keys), Head(keys), overlap)
             ELSE MatchLoop(normalized, Tail(keys), best_match, best_score)

Keys(frame_map) == [i \in 1..Len(frame_map) |-> frame_map[i].key]

\* line 196: the fixed threshold
MinOverlap == 3

\* lines 177-196
match_test_to_frames(test_title, frame_map) ==
    LET best == MatchLoop(Normalize(test_title), Keys(frame_map), None, 0)
    IN  IF best.best_score >= MinOverlap THEN best.best_match ELSE None

\* frames.get(frame_key): None when the key is absent
FramesGet(frame_map, frame_key) ==
    IF \E i \in 1..Len(frame_map) : frame_map[i].key = frame_key
    THEN frame_map[CHOOSE i \in 1..Len(frame_map) : frame_map[i].key = frame_key].group
    ELSE None

(***************************************************************************)
(* Attachments                                                             *)
(*                                                                         *)
(* An attachment is a dict with any of the keys name, contentType, body    *)
(* and path.  Names, content types, bodies and paths are compared whole,   *)
(* so they are plain strings.  A body is "" or one of                      *)
(*   "b64:text"     base64 of UTF-8 text                                    *)
(*   "b64:binary"   base64 of bytes that are not UTF-8                      *)
(*   "b64:nothing"  a string without any base64 character (decodes to b"") *)
(*   "b64:badpad"   a string b64decode rejects (binascii.Error)            *)
(* and a path of the file system is in one of the states                   *)
(*   "missing", "text", "binary" (not UTF-8), "empty", "denied" (it exists *)
(*   and open() raises PermissionError).                                   *)
(***************************************************************************)
ImageTypes == {"image/png", "image/jpeg"}

\* content_type.startswith("image/")
IsImage(content_type) == content_type \in ImageTypes

\* os.path.exists(path)
Exists(files, path) == path \in DOMAIN files /\ files[path] # "missing"

\* lines 142-159
img_from_attachment(att, files) ==
    LET body         == Get(att, "body", "")
        path         == Get(att, "path", "")
        content_type == Get(att, "contentType", "")
    IN  IF ~IsImage(content_type) THEN Returned(None)
        ELSE IF body # "" THEN Returned("data:" \o content_type \o ";base64," \o body)
        ELSE IF path # "" /\ Exists(files, path)
             THEN IF files[path] = "denied" THEN Raised
                  ELSE Returned("data:" \o content_type \o ";base64,<" \o path \o ">")
        ELSE Returned(None)

\* lines 166-169: base64.b64decode(body).decode("utf-8", errors="replace"), or the
\* body itself when b64decode raises
DecodeBody(body) ==
    CASE body = "b64:text"    -> "text"
      [] body = "b64:binary"  -> "text with U+FFFD"
      [] body = "b64:nothing" -> ""
      [] OTHER                -> body

\* lines 162-174
text_from_attachment(att, files) ==
    LET body == Get(att, "body", "")
        path == Get(att, "path", "")
    IN  IF body # "" THEN Returned(DecodeBody(body))
        ELSE IF path # "" /\ Exists(files, path)
             THEN CASE files[path] = "denied" -> Raised
                    [] files[path] = "binary" -> Raised
                    [] files[path] = "empty"  -> Returned("")
                    [] OTHER                  -> Returned("text of <" \o path \o ">")
        ELSE Returned(None)

\* lines 425-439: the keys of the narratives table, in table order
NarrativeKeys ==
    << "fresh-start", "connected", "scrollback-generated", "after-swipe-up",
       "after-second-swipe", "tmux-started", "tmux-second-window", "after-swipe-left",
       "after-swipe-right", "terminal-loaded", "settings-panel", "after-pinch-zoom-in",
       "back-to-terminal" >>

\* key in step_name, for the attachment names of the model
Contains(step_name, key) ==
    \/ step_name = key
    \/ step_name = "connected-fresh-start" /\ key \in {"connected", "fresh-start"}

\* lines 423-443: the description of the first key found in the name, "" without one
step_narrative(step_name) ==
    LET hits == { i \in 1..Len(NarrativeKeys) : Contains(step_name, NarrativeKeys[i]) }
    IN  IF hits = {} THEN ""
        ELSE "narrative of " \o NarrativeKeys[CHOOSE i \in hits : \A j \in hits : i <= j]

(***************************************************************************)
(* render_test_section                                                     *)
(***************************************************************************)
\* line 361
MaxErrorLen == 500

\* lines 199-206
status_badge(status) ==
    CASE status = "passed"  -> [class |-> "badge pass", text |-> "PASSED"]
      [] status = "failed"  -> [class |-> "badge fail", text |-> "FAILED"]
      [] status = "skipped" -> [class |-> "badge skip", text |-> "SKIPPED"]
      [] OTHER              -> [class |-> "badge", text |-> "upper(" \o status \o ")"]

\* lines 358-363: the error box; an error message is given by its length
ErrorPart(error_len) ==
    [kind     |-> "error-box",
     shown    |-> IF error_len > MaxErrorLen THEN MaxErrorLen ELSE error_len,
     ellipsis |-> error_len > MaxErrorLen]

\* lines 366-393: what one attachment adds to body_parts
AttachmentParts(att, files) ==
    LET name         == Get(att, "name", "")
        content_type == Get(att, "contentType", "")
    IN  IF name = "screenshot" \/ name = "trace" THEN Returned(<<>>)
        ELSE IF IsImage(content_type)
        THEN LET src == img_from_attachment(att, files)
             IN  IF src.raised THEN Raised
                 ELSE IF src.value # None
                 THEN Returned(<<[kind      |-> "step-image",
                                  label     |-> name,
                                  narrative |-> step_narrative(name),
                                  src       |-> src.value]>>)
                 ELSE Returned(<<>>)
        ELSE IF content_type = "text/plain"
        THEN LET text == text_from_attachment(att, files)
             IN  IF text.raised THEN Raised
                 ELSE IF text.value # None /\ text.value # ""
                 THEN Returned(<<[kind |-> "step-text", label |-> name, text |-> text.value]>>)
                 ELSE Returned(<<>>)
        ELSE Returned(<<>>)

\* lines 366-393: the loop over the attachments
RECURSIVE StepParts(_, _)
StepParts(attachments, files) ==
    IF attachments = <<>> THEN Returned(<<>>)
    ELSE LET first == AttachmentParts(Head(attachments), files)
             rest  == StepParts(Tail(attachments), files)
         IN  IF first.raised \/ rest.raised THEN Raised
             ELSE Returned(first.value \o rest.value)

\* line 400: label.replace("-", " ").replace("end ", "end: ")
RECURSIVE ReplaceEnd(_)
ReplaceEnd(s) ==
    IF s = <<>> THEN <<>>
    ELSE IF Len(s) >= 4 /\ SubSeq(s, 1, 4) = <<"e", "n", "d", " ">>
    THEN <<"e", "n", "d", ":", " ">> \o ReplaceEnd(SubSeq(s, 5, Len(s)))
    ELSE <<Head(s)>> \o ReplaceEnd(Tail(s))

HumanizeLabel(label) ==
    ReplaceEnd([i \in 1..Len(label) |-> IF label[i] = "-" THEN " " ELSE label[i]])

\* lines 396-412: the frames section of a test, when a non-empty group matches its title
FramesParts(title, frame_map) ==
    LET frame_key == match_test_to_frames(title, frame_map)
        group     == IF frame_key = None THEN None ELSE FramesGet(frame_map, frame_key)
    IN  IF frame_key # None /\ frame_key # <<>> /\ group # None /\ group # <<>>
        THEN <<[kind  |-> "frames-section",
                items |-> [i \in 1..Len(group) |->
                             [src   |-> group[i].b64,
                              alt   |-> group[i].filename,
                              label |-> HumanizeLabel(group[i].label)]]]>>
        ELSE <<>>

\* faulty variant: the error box is not counted when the body is tested for emptiness
SectionBodyIgnoringError(body_parts) ==
    IF \E i \in 1..Len(body_parts) : body_parts[i].kind # "error-box"
    THEN body_parts
    ELSE Append(body_parts, [kind |-> "placeholder"])

\* line 414: the parts joined, or the "No step data captured" notice when there are none
SectionBody(body_parts) ==
    IF body_parts # <<>> THEN body_parts ELSE <<[kind |-> "placeholder"]>>

\* lines 341-420; test["error"] is the length of the error message
render_test_section(test, frame_map, files) ==
    LET error_parts == IF test.error > 0 THEN <<ErrorPart(test.error)>> ELSE <<>>
        steps       == StepParts(test.attachments, files)
    IN  IF steps.raised THEN Raised
        ELSE Returned([title    |-> test.title,
                       duration |-> format_duration(test.duration),
                       badge    |-> status_badge(test.status),
                       body     |-> SectionBody(error_parts \o steps.value
                                                \o FramesParts(test.title, frame_map))])

(***************************************************************************)
(* render_html                                                             *)
(*                                                                         *)
(* Suite titles are only tested for emptiness and used as dict keys, so    *)
(* they are plain strings.                                                 *)
(***************************************************************************)
\* faulty variant: the records are grouped by their raw suite title
SuiteKeyRaw(t) == t.suite

\* line 222: t["suite"] or "Ungrouped"
SuiteKey(t) == IF t.suite # "" THEN t.suite ELSE "Ungrouped"

\* line 223: suites.setdefault(s, []).append(t), a new key going last
AddToSuite(suite_map, s, t) ==
    IF \E i \in 1..Len(suite_map) : suite_map[i].name = s
    THEN [i \in 1..Len(suite_map) |->
            IF suite_map[i].name = s
            THEN [name |-> s, members |-> Append(suite_map[i].members, t)]
            ELSE suite_map[i]]
    ELSE Append(suite_map, [name |-> s, members |-> <<t>>])

\* lines 220-223
RECURSIVE GroupBySuite(_, _)
GroupBySuite(test_list, suite_map) ==
    IF test_list = <<>> THEN suite_map
    ELSE GroupBySuite(Tail(test_list),
                      AddToSuite(suite_map, SuiteKey(Head(test_list)), Head(test_list)))

\* sum(1 for t in tests if t["status"] == status)
RECURSIVE CountStatus(_, _)
CountStatus(test_list, status) ==
    IF test_list = <<>> THEN 0
    ELSE (IF Head(test_list).status = status THEN 1 ELSE 0)
         + CountStatus(Tail(test_list), status)

\* faulty variant: every record that did not fail counts as passed
PassedCountNotFailed(test_list) == Len(test_list) - CountStatus(test_list, "failed")

\* line 225
PassedCount(test_list) == CountStatus(test_list, "passed")

\* the start times datetime.fromisoformat accepts once "Z" is replaced
IsoStartTimes == {"2026-01-02T03:04:05.678Z"}

\* lines 230-234
TimeStr(start_time) ==
    IF start_time \in IsoStartTimes
    THEN "strftime(" \o start_time \o ")"
    ELSE start_time

\* lines 236-241: the sections of a list of records, in list order
RECURSIVE Sections(_, _, _)
Sections(members, frame_map, files) ==
    IF members = <<>> THEN Returned(<<>>)
    ELSE LET first == render_test_section(Head(members), frame_map, files)
             rest  == Sections(Tail(members), frame_map, files)
         IN  IF first.raised \/ rest.raised THEN Raised
             ELSE Returned(<<first.value>> \o rest.value)

\* the members of the suites, suite after suite
RECURSIVE Flatten(_)
Flatten(suite_map) ==
    IF suite_map = <<>> THEN <<>>
    ELSE Head(suite_map).members \o Flatten(Tail(suite_map))

\* lines 218-338
render_html(test_list, frame_map, video_rel, start_time, duration_ms, files) ==
    LET suites   == GroupBySuite(test_list, <<>>)
        sections == Sections(Flatten(suites), frame_map, files)
    IN  IF sections.raised THEN Raised
        ELSE Returned([time_str      |-> TimeStr(start_time),
                       duration      |-> format_duration(duration_ms),
                       total         |-> Len(test_list),
                       passed        |-> PassedCount(test_list),
                       failed        |-> CountStatus(test_list, "failed"),
                       test_sections |-> sections.value,
                       video_section |-> IF video_rel # None
                                         THEN [src |-> video_rel, href |-> video_rel]
                                         ELSE None])

(***************************************************************************)
(* Specification of one call of format_duration                            *)
(***************************************************************************)
MaxMs == 125000

InitDuration ==
    /\ pc = "call"
    /\ \E ms \in 0..MaxMs : call = [ms |-> ms]
    /\ ret = None
    /\ NoMain

FormatDuration ==
    /\ pc = "call"
    /\ ret' = format_duration(call.ms)
    /\ pc' = "return"
    /\ UNCHANGED <<call, mainVars>>

NextDuration == FormatDuration

SpecDuration == InitDuration /\ [][NextDuration]_vars

\* C9: below 60000 ms the duration shows seconds with one decimal and the value
\* shown is below 60.0; from 60000 ms on it shows "Xm Ys" with X = floor(ms / 60000)
\* and Y a whole number of seconds in 0..59.
C9_WellFormedDuration ==
    pc = "return" =>
        /\ call.ms < 60000 => ret.form = "s" /\ ret.tenths < 600
        /\ call.ms >= 60000 =>
              /\ ret.form = "m s"
              /\ ret.m = call.ms \div 60000
              /\ ret.s \in 0..59

(***************************************************************************)
(* Specification of one call of match_test_to_frames                       *)
(***************************************************************************)
MaxTitleLen == 5
MaxKeys == 2

TitleChars == {"a", "B", "c", " "}

\* "a-B-c", "c-b-a-d", "a-a-b-B" and "a--c"
MatchPrefixes ==
    { <<"a", "-", "B", "-", "c">>,
      <<"c", "-", "b", "-", "a", "-", "d">>,
      <<"a", "-", "a", "-", "b", "-", "B">>,
      <<"a", "-", "-", "c">> }

\* the sequences of at most n distinct elements of S
DistinctSeqs(S, n) ==
    UNION { { q \in [1..k -> S] : \A i, j \in 1..k : i # j => q[i] # q[j] } : k \in 0..n }

InitMatch ==
    /\ pc = "call"
    /\ \E n \in 0..MaxTitleLen : \E t \in [1..n -> TitleChars] :
       \E ks \in DistinctSeqs(MatchPrefixes, MaxKeys) :
          call = [test_title |-> t,
                  frame_map  |-> [i \in 1..Len(ks) |-> [key |-> ks[i], group |-> <<>>]]]
    /\ ret = None
    /\ NoMain

MatchTestToFrames ==
    /\ pc = "call"
    /\ ret' = match_test_to_frames(call.test_title, call.frame_map)
    /\ pc' = "return"
    /\ UNCHANGED <<call, mainVars>>

NextMatch == MatchTestToFrames

SpecMatch == InitMatch /\ [][NextMatch]_vars

\* the hyphen-separated words of s: its maximal hyphen-free stretches, empty ones included
HyphenWords(s) ==
    { SubSeq(s, i, j) : <<i, j>> \in
        { w \in (1..(Len(s) + 1)) \X (0..Len(s)) :
            /\ w[2] >= w[1] - 1
            /\ \A k \in w[1]..w[2] : s[k] # "-"
            /\ w[1] = 1 \/ s[w[1] - 1] = "-"
            /\ w[2] = Len(s) \/ s[w[2] + 1] = "-" } }

\* the words of the normalized title: the maximal alphanumeric stretches of the title,
\* lowercased (the one empty word when the title has no alphanumeric character)
TitleWords(t) ==
    LET runs == { Lower(SubSeq(t, w[1], w[2])) : w \in
                    { w \in (1..Len(t)) \X (1..Len(t)) :
                        /\ w[1] <= w[2]
                        /\ \A k \in w[1]..w[2] : IsAlnum(t[k])
                        /\ w[1] = 1 \/ ~IsAlnum(t[w[1] - 1])
                        /\ w[2] = Len(t) \/ ~IsAlnum(t[w[2] + 1]) } }
    IN  IF runs = {} THEN {<<>>} ELSE runs

Score(words, prefix) == Cardinality(words \cap HyphenWords(Lower(prefix)))

\* C5: the value returned is the first key, in the mapping's order, whose score (the
\* number of distinct words it shares with the normalized title) is maximal, provided
\* that score is at least 3, and no match otherwise; it is a key as spelled in the mapping.
C5_FirstBestPrefix ==
    pc = "return" =>
        LET ks == Keys(call.frame_map)
            tw == TitleWords(call.test_title)
            sc == [i \in 1..Len(ks) |-> Score(tw, ks[i])]
            good == { i \in 1..Len(ks) :
                        /\ sc[i] >= 3
                        /\ \A j \in 1..Len(ks) : sc[j] <= sc[i]
                        /\ \A j \in 1..(i - 1) : sc[j] < sc[i] }
        IN  /\ good = {} => ret = None
            /\ \A i \in good : ret = ks[i]
            /\ ret = None \/ \E i \in 1..Len(ks) : ret = ks[i]

\* two prefixes tie at three shared words and the first, spelled with a capital, is returned
C5_Witness ==
    /\ pc = "return"
    /\ Len(call.frame_map) = 2
    /\ Score(TitleWords(call.test_title), call.frame_map[1].key) = 3
    /\ Score(TitleWords(call.test_title), call.frame_map[2].key) = 3
    /\ ret = <<"a", "-", "B", "-", "c">>

(***************************************************************************)
(* Specification of one call of collect_frames                             *)
(***************************************************************************)
MaxStemLen == 7

StemChars == {"a", "1", "-"}

\* "a", "a-2-a" and "a-10-a"
CompanionStems ==
    { <<"a">>,
      <<"a", "-", "2", "-", "a">>,
      <<"a", "-", "1", "0", "-", "a">> }

\* the directory holds one file with any stem, and any of the companion files
InitFrames ==
    /\ pc = "call"
    /\ \E n \in 1..MaxStemLen : \E stem \in [1..n -> StemChars] :
       \E others \in SUBSET CompanionStems :
          call = [files |-> { [stem |-> st, readable |-> TRUE] : st \in {stem} \cup others }]
    /\ ret = None
    /\ NoMain

CollectFrames ==
    /\ pc = "call"
    /\ ret' = collect_frames(call.files)
    /\ pc' = "return"
    /\ UNCHANGED <<call, mainVars>>

NextFrames == CollectFrames

SpecFrames == InitFrames /\ [][NextFrames]_vars

\* an order token: one or more digits, optionally followed by one lowercase letter
IsOrderToken(tok) ==
    /\ Len(tok) >= 1
    /\ \A k \in 1..(Len(tok) - 1) : IsDigit(tok[k])
    /\ \/ IsDigit(tok[Len(tok)])
       \/ IsLower(tok[Len(tok)]) /\ Len(tok) >= 2

\* <<h1, h2>>: the hyphens around a whole hyphen-delimited segment that is an order
\* token, with text before h1 and text after h2
TokenSites(stem) ==
    { h \in (1..Len(stem)) \X (1..Len(stem)) :
        /\ stem[h[1]] = "-" /\ stem[h[2]] = "-" /\ h[1] < h[2]
        /\ \A k \in (h[1] + 1)..(h[2] - 1) : stem[k] # "-"
        /\ IsOrderToken(SubSeq(stem, h[1] + 1, h[2] - 1))
        /\ h[1] > 1 /\ h[2] < Len(stem) }

\* the split the file stem is to get: at the first order token, or none
ExpectedSplit(stem) ==
    IF TokenSites(stem) = {}
    THEN [prefix |-> stem, order |-> <<"0">>,
          label |-> <<"u", "n", "k", "n", "o", "w", "n">>]
    ELSE LET h == CHOOSE g \in TokenSites(stem) : \A f \in TokenSites(stem) : g[1] <= f[1]
         IN  [prefix |-> SubSeq(stem, 1, h[1] - 1),
              order  |-> SubSeq(stem, h[1] + 1, h[2] - 1),
              label  |-> SubSeq(stem, h[2] + 1, Len(stem))]

\* the places <<group, position>> of the mapping that hold the frame of a file
PlacesOf(frame_map, stem) ==
    { w \in (1..Len(frame_map)) \X (1..Cardinality(call.files)) :
        /\ w[2] <= Len(frame_map[w[1]].group)
        /\ frame_map[w[1]].group[w[2]].filename = FileName(stem) }

\* C6: every file stem is split at its first order token (a whole hyphen-delimited
\* segment of digits with an optional lowercase letter, text before and after it),
\* or, with no such segment, becomes the prefix with order "0" and label "unknown";
\* every file is in exactly one group, the one keyed by its prefix.
C6_SplitAtFirstToken ==
    pc = "return" =>
        \A f \in call.files :
            LET want   == ExpectedSplit(f.stem)
                places == PlacesOf(ret.value, f.stem)
            IN  /\ Cardinality(places) = 1
                /\ \A w \in places :
                      /\ ret.value[w[1]].key = want.prefix
                      /\ ret.value[w[1]].group[w[2]].order = want.order
                      /\ ret.value[w[1]].group[w[2]].label = want.label

\* a stem with two order tokens was split at the first one
C6_Witness ==
    /\ pc = "return"
    /\ \E f \in call.files :
          /\ Cardinality(TokenSites(f.stem)) >= 2
          /\ \E i \in 1..Len(ret.value) : ret.value[i].key = <<"a">>
          /\ ExpectedSplit(f.stem).prefix = <<"a">>

MaxAttachments == 2

\* "a b C" shares three words with the prefix "a-b-c", "a" shares one
SectionTitles == { <<"a", " ", "b", " ", "C">>, <<"a">> }

ErrorLens == {0, 500, 501}

AttachmentPool ==
    { [name |-> "screenshot", contentType |-> "image/png", body |-> "b64:binary"],
      [name |-> "connected", contentType |-> "image/png", body |-> "b64:binary"],
      [name |-> "connected-fresh-start", contentType |-> "image/jpeg", path |-> "p"],
      [name |-> "step", contentType |-> "image/png"],
      [name |-> "log", contentType |-> "text/plain", body |-> "b64:text"],
      [name |-> "log", contentType |-> "text/plain", body |-> "b64:nothing"],
      [name |-> "log", contentType |-> "text/plain", path |-> "p"],
      [contentType |-> "text/plain", body |-> "b64:badpad"],
      [name |-> "trace", contentType |-> "application/zip", path |-> "p"],
      [name |-> "data", body |-> "b64:text"] }

PathStates == {"missing", "text", "binary", "empty", "denied"}

SectionFrame ==
    [order |-> <<"0">>, label |-> <<"e", "n", "d", "-", "o", "k">>,
     b64 |-> [content_of |-> <<"a", "-", "b", "-", "c", "-", "0", "-", "e", "n", "d", "-", "o", "k">>],
     filename |-> FileName(<<"a", "-", "b", "-", "c", "-", "0", "-", "e", "n", "d", "-", "o", "k">>)]

\* no frames, a group for "a-b-c", and a mapping whose group for "a-b-c" is empty
SectionFrameMaps ==
    { <<>>,
      <<[key |-> <<"a", "-", "b", "-", "c">>, group |-> <<SectionFrame>>]>>,
      <<[key |-> <<"a", "-", "b", "-", "c">>, group |-> <<>>]>> }

InitSection ==
    /\ pc = "call"
    /\ \E title \in SectionTitles, error \in ErrorLens, fm \in SectionFrameMaps,
          state \in PathStates :
       \E n \in 0..MaxAttachments : \E atts \in [1..n -> AttachmentPool] :
          call = [test |-> [suite |-> "", title |-> title, project |-> "", status |-> "failed",
                            duration |-> 1500, startTime |-> "", error |-> error,
                            attachments |-> atts],
                  frame_map |-> fm,
                  files |-> [p \in {"p"} |-> state]]
    /\ ret = None
    /\ NoMain

RenderTestSection ==
    /\ pc = "call"
    /\ ret' = render_test_section(call.test, call.frame_map, call.files)
    /\ pc' = "return"
    /\ UNCHANGED <<call, mainVars>>

NextSection == RenderTestSection

SpecSection == InitSection /\ [][NextSection]_vars

\* how often the "No step data captured" notice stands in a section
Placeholders(section) ==
    Cardinality({ i \in 1..Len(section.body) : section.body[i].kind = "placeholder" })

\* an attachment of the test produced a step block
StepBlockProduced(test, files) ==
    \E i \in 1..Len(test.attachments) :
        AttachmentParts(test.attachments[i], files) \notin {Raised, Returned(<<>>)}

\* a non-empty frame group was matched for the test's title
FrameGroupMatched(test, frame_map) ==
    LET frame_key == match_test_to_frames(test.title, frame_map)
    IN  /\ frame_key # None
        /\ FramesGet(frame_map, frame_key) # <<>>

\* C8 as stated: with or without an error message, the section holds the placeholder
\* exactly once when no attachment produced a step block and no non-empty frame
\* group was matched, and no placeholder otherwise.
C8_PlaceholderWhateverTheError ==
    pc = "return" /\ ~ret.raised =>
        Placeholders(ret.value) =
            IF ~StepBlockProduced(call.test, call.files)
               /\ ~FrameGroupMatched(call.test, call.frame_map)
            THEN 1 ELSE 0

\* C8 amended: the section holds the placeholder exactly once when the test has no
\* error message, no attachment produced a step block and no non-empty frame group
\* was matched, and no placeholder otherwise (an error box alone fills the body).
C8_PlaceholderIffEmptyBody ==
    pc = "return" /\ ~ret.raised =>
        Placeholders(ret.value) =
            IF /\ call.test.error = 0
               /\ ~StepBlockProduced(call.test, call.files)
               /\ ~FrameGroupMatched(call.test, call.frame_map)
            THEN 1 ELSE 0

\* a test whose attachments all come to nothing, with an empty matched group, got
\* the placeholder as its whole body
C8_Witness ==
    /\ pc = "return"
    /\ ~ret.raised
    /\ Len(call.test.attachments) = 2
    /\ match_test_to_frames(call.test.title, call.frame_map) # None
    /\ ret.value.body = <<[kind |-> "placeholder"]>>

(***************************************************************************)
(* Specification of one call of render_html                                *)
(***************************************************************************)
MaxTests == 4

RenderSuites == {"", "A", "Ungrouped"}
RenderTitles == { <<"a">>, <<"b">> }
StartTimes == {"2026-01-02T03:04:05.678Z", "yesterday", ""}
NoFiles == [p \in {} |-> "missing"]

RenderRecord(suite, title) ==
    [suite |-> suite, title |-> title, project |-> "", status |-> "passed",
     duration |-> 0, startTime |-> "", error |-> 0, attachments |-> <<>>]

InitRender ==
    /\ pc = "call"
    /\ \E n \in 0..MaxTests :
       \E ss \in [1..n -> RenderSuites], ts \in [1..n -> RenderTitles] :
       \E start_time \in StartTimes, video_rel \in {None, "recording.mp4"} :
          call = [test_list  |-> [i \in 1..n |-> RenderRecord(ss[i], ts[i])],
                  frame_map  |-> <<>>,
                  video_rel  |-> video_rel,
                  start_time |-> start_time,
                  duration_ms |-> 61500,
                  files      |-> NoFiles]
    /\ ret = None
    /\ NoMain

RenderHtml ==
    /\ pc = "call"
    /\ ret' = render_html(call.test_list, call.frame_map, call.video_rel,
                          call.start_time, call.duration_ms, call.files)
    /\ pc' = "return"
    /\ UNCHANGED <<call, mainVars>>

NextRender == RenderHtml

SpecRender == InitRender /\ [][NextRender]_vars

\* the suite title a record is filed under: "Ungrouped" for the empty title
FiledUnder(t) == IF t.suite = "" THEN "Ungrouped" ELSE t.suite

\* the place of the i-th record's section: after the sections of the suite titles
\* that first appear earlier in the list, and after the earlier records of its own
SectionPlace(test_list, i) ==
    LET first(j) == CHOOSE k \in 1..j :
                        /\ FiledUnder(test_list[k]) = FiledUnder(test_list[j])
                        /\ \A l \in 1..(k - 1) :
                              FiledUnder(test_list[l]) # FiledUnder(test_list[j])
    IN  1 + Cardinality({ j \in 1..Len(test_list) :
                            \/ first(j) < first(i)
                            \/ first(j) = first(i) /\ j < i })

\* the records filed under one suite title stand together in the list
SuitesContiguous(test_list) ==
    \A i, j, k \in 1..Len(test_list) :
        i < j /\ j < k /\ FiledUnder(test_list[i]) = FiledUnder(test_list[k])
            => FiledUnder(test_list[j]) = FiledUnder(test_list[i])

\* C10: the document holds exactly one section per record; the sections are ordered
\* by the first appearance of their suite title (the empty title counting as
\* "Ungrouped") and, within a title, in list order; so they are in list order
\* whenever the records of each suite title are contiguous.
C10_OneSectionPerRecord ==
    pc = "return" =>
        LET secs == ret.value.test_sections
            tl   == call.test_list
            section(i) == render_test_section(tl[i], call.frame_map, call.files).value
        IN  /\ Len(secs) = Len(tl)
            /\ \A i \in 1..Len(tl) : secs[SectionPlace(tl, i)] = section(i)
            /\ SuitesContiguous(tl) => \A i \in 1..Len(tl) : secs[i] = section(i)

\* records with an empty title, then "A", then "Ungrouped": the third record's
\* section stands before the second's
C10_Witness ==
    /\ pc = "return"
    /\ Len(call.test_list) = 3
    /\ call.test_list[1].suite = "" /\ call.test_list[1].title = <<"a">>
    /\ call.test_list[2].suite = "A" /\ call.test_list[2].title = <<"a">>
    /\ call.test_list[3].suite = "Ungrouped" /\ call.test_list[3].title = <<"b">>
    /\ ret.value.test_sections[2].title = <<"b">>
    /\ ret.value.test_sections[3].title = <<"a">>

(***************************************************************************)
(* Specification of a report flattened by collect_tests and rendered by    *)
(* render_html.  The reports are drawn from three families:                *)
(*   nested suites, each with no spec or one spec of one result;           *)
(*   one suite whose specs, tests and results form any forest;             *)
(*   one suite of two specs with one result each, all titles, project      *)
(*   names and statuses free.                                              *)
(***************************************************************************)
MaxSuiteUnits == 4
MaxSpecNodes == 6

SuiteTitles == {"", "A"}
SpecTitles == { <<"x">>, <<"y">> }
Projects == {"p", "q"}

\* a result without "status" gets the default "unknown"
Results ==
    { [status |-> st] : st \in {"passed", "failed", "skipped", "timedOut"} }
        \cup { [duration |-> 250] }

OneResultSpec(title, project, result) ==
    [title |-> title, tests |-> <<[projectName |-> project, results |-> <<result>>]>>]

\* the lists of suites of n units: a suite is one unit, its one-result spec another
RECURSIVE SuiteLists(_)
SuiteLists(n) ==
    IF n = 0 THEN {<<>>}
    ELSE UNION { UNION {
            { <<[title |-> t, specs |-> sp, suites |-> inner]>> \o rest :
                t \in SuiteTitles, inner \in SuiteLists(k - 1 - Len(sp)),
                rest \in SuiteLists(n - k) } :
            sp \in IF k >= 2
                   THEN {<<>>} \cup { <<OneResultSpec(<<"x">>, "p", [status |-> st])>> :
                                        st \in {"passed", "failed"} }
                   ELSE {<<>>} } :
         k \in 1..n }

NestedReports == UNION { { [suites |-> l] : l \in SuiteLists(n) } : n \in 0..MaxSuiteUnits }

\* the lists of specs ("spec"), tests ("test") or results ("result") of n nodes
RECURSIVE NodeLists(_, _)
NodeLists(kind, n) ==
    IF n = 0 THEN {<<>>}
    ELSE UNION {
            { <<node>> \o rest :
                node \in CASE kind = "result" -> IF k = 1 THEN Results ELSE {}
                           [] kind = "test" ->
                                { [projectName |-> "p", results |-> rs] :
                                    rs \in NodeLists("result", k - 1) }
                           [] kind = "spec" ->
                                { [title |-> <<"x">>, tests |-> ts] :
                                    ts \in NodeLists("test", k - 1) },
                rest \in NodeLists(kind, n - k) } :
         k \in 1..n }

OneSuiteReports ==
    UNION { { [suites |-> <<[title |-> "A", specs |-> sp]>>] : sp \in NodeLists("spec", n) } :
            n \in 0..MaxSpecNodes }

TwoSpecReports ==
    { [suites |-> <<[title |-> t,
                     specs |-> <<OneResultSpec(t1, p1, r1), OneResultSpec(t2, p2, r2)>>,
                     suites |-> <<>>]>>,
       stats |-> [startTime |-> "2026-01-02T03:04:05.678Z", duration |-> 1500]] :
        t \in SuiteTitles, t1 \in SpecTitles, t2 \in SpecTitles,
        p1 \in Projects, p2 \in Projects, r1 \in Results, r2 \in Results }

InitTests ==
    /\ pc = "loaded"
    /\ \E r \in NestedReports \cup OneSuiteReports \cup TwoSpecReports : call = [report |-> r]
    /\ ret = None
    /\ NoMain

\* main, line 46
FlattenReport ==
    /\ pc = "loaded"
    /\ ret' = [test_list |-> collect_tests(call.report)]
    /\ pc' = "collected"
    /\ UNCHANGED <<call, mainVars>>

\* main, lines 51-55, with no frames directory and no recording
RenderReport ==
    /\ pc = "collected"
    /\ LET stats == Get(call.report, "stats", <<>>)
       IN  ret' = [test_list |-> ret.test_list,
                   html |-> render_html(ret.test_list, <<>>, None,
                                        Get(stats, "startTime", ""),
                                        Get(stats, "duration", 0), NoFiles)]
    /\ pc' = "rendered"
    /\ UNCHANGED <<call, mainVars>>

NextTests == FlattenReport \/ RenderReport

SpecTests == InitTests /\ [][NextTests]_vars

\* the chains of indices that lead from a list of suites down to a suite
RECURSIVE Chains(_)
Chains(suites) ==
    UNION { { <<i>> \o c : c \in {<<>>} \cup Chains(Get(suites[i], "suites", <<>>)) } :
            i \in 1..Len(suites) }

RECURSIVE SuiteAt(_, _)
SuiteAt(suites, chain) ==
    IF Len(chain) = 1 THEN suites[chain[1]]
    ELSE SuiteAt(Get(suites[chain[1]], "suites", <<>>), Tail(chain))

\* the leaf results of a report: a suite (by its chain), then the indices of the
\* spec, the test and the result
LeafPaths(rep) ==
    LET top == Get(rep, "suites", <<>>)
    IN  UNION { UNION { UNION {
            { [chain |-> c, spec |-> i, test |-> j, result |-> k] :
                k \in 1..Len(Get(Get(Get(SuiteAt(top, c), "specs", <<>>)[i], "tests", <<>>)[j],
                                 "results", <<>>)) } :
            j \in 1..Len(Get(Get(SuiteAt(top, c), "specs", <<>>)[i], "tests", <<>>)) } :
            i \in 1..Len(Get(SuiteAt(top, c), "specs", <<>>)) } :
            c \in Chains(top) }

LeafSpec(rep, p) == Get(SuiteAt(Get(rep, "suites", <<>>), p.chain), "specs", <<>>)[p.spec]
LeafTest(rep, p) == Get(LeafSpec(rep, p), "tests", <<>>)[p.test]
LeafResult(rep, p) == Get(LeafTest(rep, p), "results", <<>>)[p.result]
LeafStatus(rep, p) == Get(LeafResult(rep, p), "status", "unknown")

\* depth-first order of two leaves: within one suite by spec, test, result; the
\* leaves of a suite's own specs before those of the suites nested in it; otherwise
\* by the first index at which the chains part
LeafBefore(p, q) ==
    LET m == IF Len(p.chain) < Len(q.chain) THEN Len(p.chain) ELSE Len(q.chain)
        diff == { d \in 1..m : p.chain[d] # q.chain[d] }
    IN  IF diff # {}
        THEN LET d == CHOOSE e \in diff : \A f \in diff : e <= f
             IN  p.chain[d] < q.chain[d]
        ELSE IF Len(p.chain) # Len(q.chain) THEN Len(p.chain) < Len(q.chain)
        ELSE \/ p.spec < q.spec
             \/ p.spec = q.spec /\ p.test < q.test
             \/ p.spec = q.spec /\ p.test = q.test /\ p.result < q.result

\* C1: the Total shown equals the number of records of collect_tests and the number
\* of leaf results of the report, and the sum of the counts of the records by status
\* (passed, failed, skipped, any other); Passed and Failed are the numbers of leaf
\* results whose status is exactly "passed" and exactly "failed".
C1_SummaryCounts ==
    pc = "rendered" =>
        LET doc    == ret.html.value
            leaves == LeafPaths(call.report)
            recs(S) == Cardinality({ i \in 1..Len(ret.test_list) : ret.test_list[i].status \in S })
            named  == {"passed", "failed", "skipped"}
            others == { ret.test_list[i].status : i \in 1..Len(ret.test_list) } \ named
        IN  /\ doc.total = Len(ret.test_list)
            /\ doc.total = Cardinality(leaves)
            /\ doc.total = recs({"passed"}) + recs({"failed"}) + recs({"skipped"}) + recs(others)
            /\ doc.passed = recs({"passed"})
            /\ doc.failed = recs({"failed"})
            /\ doc.passed = Cardinality({ p \in leaves : LeafStatus(call.report, p) = "passed" })
            /\ doc.failed = Cardinality({ p \in leaves : LeafStatus(call.report, p) = "failed" })

\* a report with a passed, a failed, a skipped and a result without status
C1_Witness ==
    /\ pc = "rendered"
    /\ ret.html.value.total = 4
    /\ ret.html.value.passed = 1
    /\ ret.html.value.failed = 1
    /\ \E i \in 1..4 : ret.test_list[i].status = "skipped"
    /\ \E i \in 1..4 : ret.test_list[i].status = "unknown"

\* C2: collect_tests returns one record per leaf result, in depth-first order (suites
\* in list order, a suite's own specs, tests and results in order before its nested
\* suites), each with the title of the suite that holds its spec, the spec's title
\* and the test's project name.
C2_DepthFirstRecords ==
    pc \in {"collected", "rendered"} =>
        LET leaves == LeafPaths(call.report)
            place(p) == 1 + Cardinality({ q \in leaves : LeafBefore(q, p) })
        IN  /\ Len(ret.test_list) = Cardinality(leaves)
            /\ \A p \in leaves :
                  LET rec == ret.test_list[place(p)]
                  IN  /\ rec.suite = Get(SuiteAt(Get(call.report, "suites", <<>>), p.chain),
                                         "title", "")
                      /\ rec.title = Get(LeafSpec(call.report, p), "title", "")
                      /\ rec.project = Get(LeafTest(call.report, p), "projectName", "")
                      /\ rec.status = LeafStatus(call.report, p)

\* a suite "A" with a failed result of its own and a nested suite "" with a passed
\* one: the suite's own record comes first
C2_Witness ==
    /\ pc = "collected"
    /\ Len(call.report.suites) = 1
    /\ Len(ret.test_list) = 2
    /\ ret.test_list[1].suite = "A" /\ ret.test_list[1].status = "failed"
    /\ ret.test_list[2].suite = "" /\ ret.test_list[2].status = "passed"

(***************************************************************************)
(* Specification of a run of main                                          *)
(*                                                                         *)
(* fs.report_file  "missing", "valid" (it holds the JSON document fs.doc)  *)
(*                 or "malformed" (json.load raises)                       *)
(* fs.has_frames   whether the directory <baseline>/frames exists          *)
(* fs.frames_dir   its PNG files                                           *)
(* fs.recording    whether <baseline>/recording.mp4 exists                 *)
(* fs.paths        the state of the paths the attachments name             *)
(* fs.out_dir      "absent", "present" or "created" (by this run)          *)
(* fs.output       "absent", "old" (left by an earlier run) or "written"   *)
(* fs.xdg_open     whether the xdg-open program can be started             *)
(* An exception nobody catches ends the run with a traceback on standard   *)
(* error and exit code 1.                                                  *)
(***************************************************************************)
MainTitle == <<"a", " ", "b", " ", "C">>

MainStemA == <<"a", "-", "b", "-", "c", "-", "0", "-", "e", "n", "d">>
MainStemB == <<"a", "-", "b", "-", "c", "-", "1", "-", "e", "n", "d">>

MainDoc(results) ==
    [stats  |-> [startTime |-> "2026-01-02T03:04:05.678Z", duration |-> 61500],
     suites |-> <<[title |-> "A",
                   specs |-> <<[title |-> MainTitle,
                                tests |-> <<[projectName |-> "p", results |-> results]>>]>>]>>]

\* a report without suites, one passed result without attachments, and one failed
\* result with an image and a text attachment kept in files
MainDocs ==
    { [suites |-> <<>>],
      MainDoc(<<[status |-> "passed", duration |-> 1500]>>),
      MainDoc(<<[status |-> "failed", duration |-> 1500, error |-> [message |-> 501],
                 attachments |->
                    <<[name |-> "connected", contentType |-> "image/png", path |-> "p"],
                      [name |-> "log", contentType |-> "text/plain", path |-> "q"]>>]>>) }

MainFrameDirs ==
    { {},
      { [stem |-> MainStemA, readable |-> TRUE] },
      { [stem |-> MainStemA, readable |-> TRUE], [stem |-> MainStemB, readable |-> FALSE] } }

InitMain ==
    /\ pc = "start"
    /\ call = None /\ ret = None
    /\ \E open \in BOOLEAN : args = [open |-> open]
    /\ \E report_file \in {"missing", "valid", "malformed"} :
       \E doc \in IF report_file = "valid" THEN MainDocs ELSE {None} :
       \E has_frames \in BOOLEAN, recording \in BOOLEAN, xdg_open \in BOOLEAN :
       \E frames_dir \in IF has_frames THEN MainFrameDirs ELSE {{}} :
       \E p \in {"text", "denied"}, q \in {"missing", "text", "binary"} :
       \E out \in { <<"absent", "absent">>, <<"present", "absent">>, <<"present", "old">> } :
          fs = [report_file |-> report_file, doc |-> doc,
                has_frames |-> has_frames, frames_dir |-> frames_dir,
                recording |-> recording, xdg_open |-> xdg_open,
                paths |-> [x \in {"p", "q"} |-> IF x = "p" THEN p ELSE q],
                out_dir |-> out[1], output |-> out[2]]
    /\ report = None /\ tests = None /\ frames = None /\ html = None
    /\ exit = None

\* faulty variant: an uncaught exception that would leave the exit code at zero
ExitQuietly == [code |-> 0, stderr |-> ""]

Traceback == [code |-> 1, stderr |-> "Traceback (most recent call last)"]

\* lines 39-41
ReportMissing ==
    /\ pc = "start"
    /\ fs.report_file = "missing"
    /\ exit' = [code |-> 1, stderr |-> "Error: report.json not found. Run emulator tests first."]
    /\ pc' = "exited"
    /\ UNCHANGED <<call, ret, args, fs, report, tests, frames, html>>

\* lines 43-44
LoadReport ==
    /\ pc = "start"
    /\ fs.report_file # "missing"
    /\ IF fs.report_file = "malformed"
       THEN /\ exit' = Traceback
            /\ pc' = "exited"
            /\ UNCHANGED report
       ELSE /\ report' = fs.doc
            /\ pc' = "loaded"
            /\ UNCHANGED exit
    /\ UNCHANGED <<call, ret, args, fs, tests, frames, html>>

\* line 46
CollectTests ==
    /\ pc = "loaded"
    /\ tests' = collect_tests(report)
    /\ pc' = "collected"
    /\ UNCHANGED <<call, ret, args, fs, report, frames, html, exit>>

\* line 47
CollectFramesOfRun ==
    /\ pc = "collected"
    /\ LET found == IF fs.has_frames THEN collect_frames(fs.frames_dir)
                    ELSE Returned(<<>>)
       IN  IF found.raised
           THEN /\ exit' = Traceback
                /\ pc' = "exited"
                /\ UNCHANGED frames
           ELSE /\ frames' = found.value
                /\ pc' = "framed"
                /\ UNCHANGED exit
    /\ UNCHANGED <<call, ret, args, fs, report, tests, html>>

\* lines 48-55
RenderHtmlOfRun ==
    /\ pc = "framed"
    /\ LET video_rel == IF fs.recording THEN "recording.mp4" ELSE None
           stats     == Get(report, "stats", <<>>)
           page      == render_html(tests, frames, video_rel, Get(stats, "startTime", ""),
                                    Get(stats, "duration", 0), fs.paths)
       IN  IF page.raised
           THEN /\ exit' = Traceback
                /\ pc' = "exited"
                /\ UNCHANGED html
           ELSE /\ html' = page.value
                /\ pc' = "rendered"
                /\ UNCHANGED exit
    /\ UNCHANGED <<call, ret, args, fs, report, tests, frames>>

\* lines 57-61 and, without --open, the end of main
WriteOutput ==
    /\ pc = "rendered"
    /\ fs' = [fs EXCEPT !.out_dir = IF @ = "absent" THEN "created" ELSE @,
                        !.output = "written"]
    /\ IF args.open
       THEN pc' = "written" /\ UNCHANGED exit
       ELSE pc' = "exited" /\ exit' = [code |-> 0, stderr |-> ""]
    /\ UNCHANGED <<call, ret, args, report, tests, frames, html>>

\* lines 63-65: subprocess.run raises FileNotFoundError when xdg-open cannot be
\* started; its exit status is ignored (check=False)
OpenReport ==
    /\ pc = "written"
    /\ exit' = IF fs.xdg_open THEN [code |-> 0, stderr |-> ""] ELSE Traceback
    /\ pc' = "exited"
    /\ UNCHANGED <<call, ret, args, fs, report, tests, frames, html>>

NextMain ==
    \/ ReportMissing
    \/ LoadReport
    \/ CollectTests
    \/ CollectFramesOfRun
    \/ RenderHtmlOfRun
    \/ WriteOutput
    \/ OpenReport

SpecMain == InitMain /\ [][NextMain]_vars

\* C3: without the report file the run ends with a non-zero exit code and a message
\* on standard error, the output file neither created nor modified and no output
\* directory created; with the report file it ends with exit code zero.
C3_ExitCodes ==
    pc = "exited" =>
        /\ fs.report_file = "missing" =>
              /\ exit.code # 0
              /\ exit.stderr # ""
              /\ fs.output # "written"
              /\ fs.out_dir # "created"
        /\ fs.report_file # "missing" => exit.code = 0

\* C3 (amended): without the report file the run ends with a non-zero exit code and
\* a message on standard error, and leaves the output file and directory alone; the
\* exit code is zero exactly when the report file parsed, the HTML document was
\* written and the viewer, when --open asks for it, could be started.
C3_ExitZeroIffWrittenAndOpened ==
    pc = "exited" =>
        /\ fs.report_file = "missing" =>
              /\ exit.code # 0
              /\ exit.stderr # ""
              /\ fs.output # "written"
              /\ fs.out_dir # "created"
        /\ exit.code = 0 <=>
              /\ fs.report_file = "valid"
              /\ fs.output = "written"
              /\ args.open => fs.xdg_open

C3_Witness ==
    /\ pc = "exited"
    /\ fs.report_file = "valid"
    /\ fs.output = "written"
    /\ args.open /\ ~fs.xdg_open
    /\ exit.code = 1

\* C4: once the report is parsed, the run reaches the point where the HTML document
\* is written, whatever the state of the optional assets.
C4_RenderAlwaysCompletes ==
    pc = "exited" /\ fs.report_file = "valid" => fs.output = "written"

====
